---------------------------- MODULE Spec2Model ----------------------------
(***************************************************************************)
(* A model of the package-merge crate: package_merge (src/src/lib.rs) as a *)
(* state machine over its loops, and MergeIter (src/src/mergeiter.rs) as a *)
(* pull-based iterator driven one next() at a time.                        *)
(*                                                                         *)
(* Frequencies are f64 in the code; the model draws them from small        *)
(* naturals, on which f64 addition and comparison are exact.  Vectors are  *)
(* 0-based in the code and 1-based sequences here: code index i is         *)
(* sequence index i+1.  An Option is a sequence of length 0 (None) or 1.   *)
(***************************************************************************)
EXTENDS Integers, Sequences, FiniteSets

\* ---- bounds of the model
MaxN == 5
MaxFreq == 1
MaxLen == 3
MaxSeq == 3
MaxVal == 2

\* ---- program and platform constants
\* width of usize on the modelled (64-bit) target: the shift of line 79
UsizeBits == 64
\* the flag word is a u32: max_len above 32 is rejected (line 82)
FlagBits == 32

VARIABLES
  \* package_merge
  pc, build, frequencies, max_len, sorted, list, merged, flags, depth,
  pairs_pos, srted_pos, n, code_lens, result, level_lens,
  \* MergeIter
  ita, itb, ela, elb, pck, out, ret, picks, polls_a, polls_b, src_a, src_b

varsPM == <<pc, build, frequencies, max_len, sorted, list, merged, flags,
            depth, pairs_pos, srted_pos, n, code_lens, result, level_lens>>
varsMI == <<ita, itb, ela, elb, pck, out, ret, picks, polls_a, polls_b,
            src_a, src_b>>
vars == <<varsPM, varsMI>>

None == <<>>
Some(x) == <<x>>

\* ------------------------------------------------------------------------
\* package_merge: helpers
\* ------------------------------------------------------------------------

\* max_len values above the flag width, below, at and above the usize width
BigLens == {33, 63, 64, 65, 96, 127}

\* order_non_nan: Less = -1, Equal = 0, Greater = 1
order_non_nan(a, b) == IF a < b THEN -1 ELSE IF a > b THEN 1 ELSE 0

\* mutant of SortedRanks: the indices are left in input order (the sort is
\* skipped)
SortedRanksUnsorted(fr) == [r \in 1..Len(fr) |-> r - 1]

\* tmp.sort_by(|&a, &b| order_non_nan(frequencies[a], frequencies[b])): a
\* stable sort of 0..len-1; the index at rank r is the one with exactly r
\* indices before it (smaller key, or equal key and smaller index)
SortedRanks(fr) ==
  LET Before(b, a) == \/ order_non_nan(fr[b], fr[a]) = -1
                      \/ order_non_nan(fr[b], fr[a]) = 0 /\ b < a
      Rank(a) == Cardinality({b \in 1..Len(fr) : Before(b, a)})
  IN [r \in 1..Len(fr) |-> (CHOOSE a \in 1..Len(fr) : Rank(a) = r - 1) - 1]

\* complete_chunks(&list, 2).map(|s| (s[0] + s[1], true)): the sums of the
\* complete consecutive pairs, an odd trailing element dropped
complete_chunks(slice, csize) ==
  LET remainder == Len(slice) % csize
      cut == IF remainder > 0 THEN SubSeq(slice, 1, Len(slice) - remainder)
             ELSE slice
  IN [k \in 1..(Len(cut) \div csize) |->
        SubSeq(cut, (k - 1) * csize + 1, k * csize)]

Pairs(l) ==
  LET ch == complete_chunks(l, 2)
  IN [k \in 1..Len(ch) |-> ch[k][1] + ch[k][2]]

\* sorted.iter().map(|&i| (frequencies[i], false))
Srted(fr, srt) == [k \in 1..Len(srt) |-> fr[srt[k] + 1]]

\* mutant of IsFirst: a.0 <= b.0, which takes the package on equal heads
IsFirstOrEqual(a, b) == a <= b

\* the closure |a, b| a.0 < b.0 handed to merge_by: TRUE takes the next
\* element from the first stream (pairs), FALSE from the second (srted)
IsFirst(a, b) == a < b

\* merge_by's choice from the two peeked heads: the closure decides when both
\* streams have an element, else the non-empty stream is taken
TakesPairs(ph, sh) ==
  IF ph # None /\ sh # None THEN IsFirst(ph[1], sh[1]) ELSE ph # None

\* 1u32 << depth, for depth < 32
Mask(d) == 2 ^ d

\* (word & mask) != 0 and word | mask on a u32 word, mask a single bit
BitIsSet(word, mask) == (word \div mask) % 2 = 1
OrMask(word, mask) == IF BitIsSet(word, mask) THEN word ELSE word + mask

\* frequencies.len() > (1usize << s) for a shift s below the usize width.
\* Lengths of the model are far below 2^31, so for s >= 31 the comparison is
\* FALSE without forming the power.
LenExceedsShl(len, s) == IF s >= 31 THEN FALSE ELSE len > 2 ^ s

\* mutant of Validate: the size check shifts by one bit too many
ValidateShiftedTwice(fr, ml, b) ==
  IF Len(fr) = 0 THEN "NoSymbols"
  ELSE IF ml >= UsizeBits /\ b = "debug" THEN "PanicShl"
  ELSE IF LenExceedsShl(Len(fr), (ml % UsizeBits) + 1) THEN "MaxLenTooSmall"
  ELSE IF ml > FlagBits THEN "MaxLenTooLarge"
  ELSE "Ok"

\* the precondition checks of lines 76-84, in the code's order.  The shift
\* 1usize << max_len with max_len >= 64 is an arithmetic overflow: a debug
\* build panics, a release build shifts by max_len mod 64.
Validate(fr, ml, b) ==
  IF Len(fr) = 0 THEN "NoSymbols"
  ELSE IF ml >= UsizeBits /\ b = "debug" THEN "PanicShl"
  ELSE IF LenExceedsShl(Len(fr), ml % UsizeBits) THEN "MaxLenTooSmall"
  ELSE IF ml > FlagBits THEN "MaxLenTooLarge"
  ELSE "Ok"

\* mutant of Capa: one entry short
CapaShort(len) == len * 2 - 2

\* capa = frequencies.len() * 2 - 1
Capa(len) == len * 2 - 1

\* mutant of Relevant: one entry too many
RelevantLong(len) == len * 2 - 1

\* n = frequencies.len() * 2 - 2
Relevant(len) == len * 2 - 2

\* mutant of NextRelevant: the package count is not doubled
NextRelevantSingle(m) == m

\* n = merged * 2
NextRelevant(m) == m * 2

NoResult == [kind |-> "None", err |-> "", lens |-> <<>>]
Err(e) == [kind |-> "Err", err |-> e, lens |-> <<>>]
Panic(e) == [kind |-> "Panic", err |-> e, lens |-> <<>>]
Ok(cl) == [kind |-> "Ok", err |-> "", lens |-> cl]

\* mutant of DecodeLoop: code_lens is indexed by rank, not through sorted
RECURSIVE DecodeLoopNoUnrank(_, _, _, _, _, _, _)
DecodeLoopNoUnrank(i, cnt, mask, fl, srt, mrg, cl) ==
  IF i >= cnt THEN [cl |-> cl, merged |-> mrg, oob |-> FALSE]
  ELSE IF i >= Len(fl) THEN [cl |-> cl, merged |-> mrg, oob |-> TRUE]
  ELSE IF ~BitIsSet(fl[i + 1], mask)
    THEN IF i - mrg >= Len(srt) \/ i - mrg < 0
           THEN [cl |-> cl, merged |-> mrg, oob |-> TRUE]
           ELSE DecodeLoopNoUnrank(i + 1, cnt, mask, fl, srt, mrg,
                  [cl EXCEPT ![i - mrg + 1] = @ + 1])
    ELSE DecodeLoopNoUnrank(i + 1, cnt, mask, fl, srt, mrg + 1, cl)

\* the body of `for i in 0..n` of the backward pass at bit `mask`, from
\* position i on; oob records an index outside flags or sorted (a panic)
RECURSIVE DecodeLoop(_, _, _, _, _, _, _)
DecodeLoop(i, cnt, mask, fl, srt, mrg, cl) ==
  IF i >= cnt THEN [cl |-> cl, merged |-> mrg, oob |-> FALSE]
  ELSE IF i >= Len(fl) THEN [cl |-> cl, merged |-> mrg, oob |-> TRUE]
  ELSE IF ~BitIsSet(fl[i + 1], mask)
    THEN IF i - mrg >= Len(srt) \/ i - mrg < 0
           THEN [cl |-> cl, merged |-> mrg, oob |-> TRUE]
           ELSE DecodeLoop(i + 1, cnt, mask, fl, srt, mrg,
                  [cl EXCEPT ![srt[i - mrg + 1] + 1] = @ + 1])
    ELSE DecodeLoop(i + 1, cnt, mask, fl, srt, mrg + 1, cl)

\* ------------------------------------------------------------------------
\* package_merge: the state machine
\* ------------------------------------------------------------------------

\* no MergeIter exists while package_merge runs (lib.rs merges with
\* itertools' merge_by)
IdleMI ==
  /\ ita = <<>> /\ itb = <<>> /\ ela = None /\ elb = None
  /\ pck = "none" /\ out = <<>> /\ ret = <<"NotCalled">>
  /\ picks = 0 /\ polls_a = 0 /\ polls_b = 0
  /\ src_a = <<>> /\ src_b = <<>>

InitPM ==
  /\ pc = "start"
  /\ build \in {"debug", "release"}
  /\ frequencies \in UNION {[1..k -> 0..MaxFreq] : k \in 0..MaxN}
  /\ max_len \in (0..MaxLen) \cup BigLens
  /\ sorted = <<>> /\ list = <<>> /\ merged = <<>> /\ flags = <<>>
  /\ depth = 0 /\ pairs_pos = 0 /\ srted_pos = 0 /\ n = 0
  /\ code_lens = <<>> /\ result = NoResult /\ level_lens = <<>>

Init == InitPM /\ IdleMI

Finish(r) ==
  /\ pc' = "done"
  /\ result' = r
  /\ UNCHANGED <<build, frequencies, max_len, sorted, list, merged, flags,
                 depth, pairs_pos, srted_pos, n, code_lens, level_lens>>

\* lines 76-96: the checks, the ranking and the buffers
Begin ==
  /\ pc = "start"
  /\ UNCHANGED varsMI
  /\ LET v == Validate(frequencies, max_len, build)
     IN IF v = "PanicShl" THEN Finish(Panic("shl overflow"))
        ELSE IF v # "Ok" THEN Finish(Err(v))
        ELSE /\ pc' = "loop"
             /\ sorted' = SortedRanks(frequencies)
             /\ list' = <<>>
             /\ merged' = <<>>
             /\ flags' = [i \in 1..Capa(Len(frequencies)) |-> 0]
             /\ depth' = 0
             /\ UNCHANGED <<build, frequencies, max_len, pairs_pos,
                            srted_pos, n, code_lens, result, level_lens>>

\* lines 98-103: one more level; merged.clear() and the two fresh streams
LevelBegin ==
  /\ pc = "loop" /\ depth < max_len
  /\ UNCHANGED varsMI
  /\ pc' = "merge"
  /\ merged' = <<>>
  /\ pairs_pos' = 0 /\ srted_pos' = 0
  /\ UNCHANGED <<build, frequencies, max_len, sorted, list, flags, depth,
                 n, code_lens, result, level_lens>>

PairsHead ==
  IF pairs_pos < Len(Pairs(list)) THEN Some(Pairs(list)[pairs_pos + 1])
  ELSE None
SrtedHead ==
  IF srted_pos < Len(sorted)
    THEN Some(Srted(frequencies, sorted)[srted_pos + 1])
  ELSE None

\* lines 104-109: one element of the merge; flags[merged.len()] is a checked
\* index
MergeStep ==
  /\ pc = "merge"
  /\ UNCHANGED varsMI
  /\ PairsHead # None \/ SrtedHead # None
  /\ LET m == TakesPairs(PairsHead, SrtedHead)
         p == IF m THEN PairsHead[1] ELSE SrtedHead[1]
     IN /\ pairs_pos' = IF m THEN pairs_pos + 1 ELSE pairs_pos
        /\ srted_pos' = IF m THEN srted_pos ELSE srted_pos + 1
        /\ IF m /\ Len(merged) >= Len(flags)
             THEN /\ pc' = "done"
                  /\ result' = Panic("index out of bounds")
                  /\ UNCHANGED <<flags, merged>>
             ELSE /\ flags' = IF m
                                THEN [flags EXCEPT ![Len(merged) + 1] =
                                        OrMask(@, Mask(depth))]
                                ELSE flags
                  /\ merged' = Append(merged, p)
                  /\ UNCHANGED <<pc, result>>
  /\ UNCHANGED <<build, frequencies, max_len, sorted, list, depth, n,
                 code_lens, level_lens>>

\* line 111 and the loop increment: mem::swap(&mut merged, &mut list)
LevelEnd ==
  /\ pc = "merge"
  /\ UNCHANGED varsMI
  /\ PairsHead = None /\ SrtedHead = None
  /\ pc' = "loop"
  /\ list' = merged
  /\ merged' = list
  /\ depth' = depth + 1
  /\ level_lens' = Append(level_lens, Len(merged))
  /\ UNCHANGED <<build, frequencies, max_len, sorted, flags, pairs_pos,
                 srted_pos, n, code_lens, result>>

\* lines 114-117; debug_assert! is compiled into debug builds only
DecodeInit ==
  /\ pc = "loop" /\ ~(depth < max_len)
  /\ UNCHANGED varsMI
  /\ IF build = "debug" /\ ~(Len(list) >= Relevant(Len(frequencies)))
       THEN /\ pc' = "done"
            /\ result' = Panic("debug_assert")
            /\ UNCHANGED <<n, code_lens, depth>>
       ELSE /\ pc' = "decode"
            /\ n' = Relevant(Len(frequencies))
            /\ code_lens' = [i \in 1..Len(frequencies) |-> 0]
            /\ depth' = max_len
            /\ UNCHANGED result
  /\ UNCHANGED <<build, frequencies, max_len, sorted, list, merged, flags,
                 pairs_pos, srted_pos, level_lens>>

\* lines 118-130: one iteration of the while loop
DecodeLevel ==
  /\ pc = "decode" /\ depth > 0 /\ n > 0
  /\ UNCHANGED varsMI
  /\ LET r == DecodeLoop(0, n, Mask(depth - 1), flags, sorted, 0, code_lens)
     IN IF r.oob
          THEN /\ pc' = "done"
               /\ result' = Panic("index out of bounds")
               /\ UNCHANGED <<depth, n, code_lens>>
          ELSE /\ depth' = depth - 1
               /\ code_lens' = r.cl
               /\ n' = NextRelevant(r.merged)
               /\ UNCHANGED <<pc, result>>
  /\ UNCHANGED <<build, frequencies, max_len, sorted, list, merged, flags,
                 pairs_pos, srted_pos, level_lens>>

\* line 132
Return ==
  /\ pc = "decode" /\ ~(depth > 0 /\ n > 0)
  /\ UNCHANGED varsMI
  /\ Finish(Ok(code_lens))

Next ==
  \/ Begin
  \/ LevelBegin
  \/ MergeStep
  \/ LevelEnd
  \/ DecodeInit
  \/ DecodeLevel
  \/ Return

Spec == Init /\ [][Next]_vars


\* ------------------------------------------------------------------------
\* Properties of package_merge (checked under Spec)
\* ------------------------------------------------------------------------

NSym == Len(frequencies)

RECURSIVE SumSeq(_, _)
SumSeq(f, k) == IF k = 0 THEN 0 ELSE f[k] + SumSeq(f, k - 1)

\* the preconditions of the contract: n >= 1, 1 <= max_len <= 32, n <= 2^max_len
ValidInput ==
  /\ NSym >= 1
  /\ max_len >= 1 /\ max_len <= 32
  /\ ~LenExceedsShl(NSym, max_len)

Returned == pc = "done" /\ result.kind = "Ok"

\* sum of frequency[s] * v[s]
Cost(v) == SumSeq([s \in 1..NSym |-> frequencies[s] * v[s]], NSym)

\* sum of 2^(max_len - v[s]) <= 2^max_len, every v[s] being at most max_len
Kraft(v) ==
  /\ \A s \in 1..NSym : v[s] <= max_len
  /\ SumSeq([s \in 1..NSym |-> 2 ^ (max_len - v[s])], NSym) <= 2 ^ max_len

\* C1: for n >= 2 and a valid max_len the call returns lengths, and no vector
\* of lengths in 1..max_len that satisfies the Kraft inequality has a
\* strictly smaller weighted sum than the returned one.
C1_Optimal ==
  (pc = "done" /\ ValidInput /\ NSym >= 2) =>
     /\ result.kind = "Ok"
     /\ LET c == Cost(result.lens)
        IN \A v \in [1..NSym -> 1..max_len] : Kraft(v) => c <= Cost(v)

\* a run where the length cap binds (a Huffman code of these five symbols
\* of cost 3 needs depth 4) and the returned lengths are not all equal
C1_Witness ==
  /\ Returned /\ ValidInput /\ NSym = 5 /\ max_len = 3
  /\ frequencies = <<1, 0, 0, 0, 1>>
  /\ \E s, t \in 1..NSym : result.lens[s] # result.lens[t]

\* C2: the lengths of every successful result satisfy the Kraft inequality,
\* sum of 2^(max_len - length[s]) <= 2^max_len.
C2_Kraft == Returned => Kraft(result.lens)

\* a result of three or more symbols that meets the Kraft bound exactly
C2_Witness ==
  /\ Returned /\ NSym >= 3
  /\ SumSeq([s \in 1..NSym |-> 2 ^ (max_len - result.lens[s])], NSym)
       = 2 ^ max_len

\* C3: on valid input the call returns exactly n lengths; for n >= 2 each is
\* in 1..max_len, and for n = 1 the single length is 0.
C3_Lengths ==
  (pc = "done" /\ ValidInput) =>
     /\ result.kind = "Ok"
     /\ Len(result.lens) = NSym
     /\ NSym >= 2 => \A s \in 1..NSym : result.lens[s] \in 1..max_len
     /\ NSym = 1 => result.lens = <<0>>

\* a result that uses both the shortest and the longest admissible length
C3_Witness ==
  /\ Returned /\ ValidInput /\ NSym >= 3
  /\ \E s, t \in 1..NSym : result.lens[s] = 1 /\ result.lens[t] = max_len
  /\ max_len >= 2

\* C4 as stated: frequency[i] <= frequency[j] implies length[i] >= length[j],
\* equal frequencies included.
C4_Original ==
  Returned =>
     \A i, j \in 1..NSym :
        frequencies[i] <= frequencies[j] => result.lens[i] >= result.lens[j]

\* C4 amended: a symbol with a strictly smaller frequency never gets a
\* strictly shorter code: frequency[i] < frequency[j] implies
\* length[i] >= length[j].
C4_Monotone ==
  Returned =>
     \A i, j \in 1..NSym :
        frequencies[i] < frequencies[j] => result.lens[i] >= result.lens[j]

\* a result where a rarer symbol has a strictly longer code, from an input
\* that is not already in ascending order
C4_Witness ==
  /\ Returned
  /\ \E i, j \in 1..NSym :
        /\ i > j
        /\ frequencies[i] < frequencies[j]
        /\ result.lens[i] > result.lens[j]

\* C5 as stated: a non-empty input with max_len > 32 ends in the
\* MaxLenTooLarge error (no abort, no MaxLenTooSmall, no lengths).
C5_TooLarge ==
  (pc = "done" /\ NSym >= 1 /\ max_len > 32) =>
     result = Err("MaxLenTooLarge")

\* C6: with max_len <= 32 and n > 2^max_len the call ends in the
\* MaxLenTooSmall error, never in lengths.
C6_TooSmall ==
  (pc = "done" /\ max_len <= 32 /\ LenExceedsShl(NSym, max_len)) =>
     result = Err("MaxLenTooSmall")

\* three symbols cannot be coded within one bit
C6_Witness ==
  /\ pc = "done" /\ max_len = 1 /\ NSym = 3
  /\ result = Err("MaxLenTooSmall")

\* the two streams of the current level both have a head, of equal value
TieHeads ==
  /\ pc = "merge"
  /\ PairsHead # None /\ SrtedHead # None
  /\ PairsHead = SrtedHead

\* C9 as stated: on equal heads the package is emitted next, and the flag
\* bit of its output position is set for this level.
C9_Original ==
  [][TieHeads =>
       /\ pairs_pos' = pairs_pos + 1 /\ srted_pos' = srted_pos
       /\ merged' = Append(merged, PairsHead[1])
       /\ BitIsSet(flags'[Len(merged) + 1], Mask(depth))]_vars

\* C9 amended: on equal heads the leaf is emitted before the package (ties
\* favour leaf-first); the flag bit of an output position is set for this
\* level exactly when the position was filled from the package stream.
C9_LeafFirst ==
  [][/\ TieHeads =>
          /\ srted_pos' = srted_pos + 1 /\ pairs_pos' = pairs_pos
          /\ merged' = Append(merged, SrtedHead[1])
          /\ ~BitIsSet(flags'[Len(merged) + 1], Mask(depth))
     /\ (pc = "merge" /\ Len(merged') = Len(merged) + 1) =>
          (BitIsSet(flags'[Len(merged')], Mask(depth))
             <=> pairs_pos' = pairs_pos + 1)]_vars

\* a level in which a leaf and a package of equal value were both emitted,
\* the leaf at the earlier position
C9_Witness ==
  /\ pc = "merge" /\ depth >= 1
  /\ \E i, j \in 1..Len(merged) :
        /\ i < j
        /\ merged[i] = merged[j]
        /\ ~BitIsSet(flags[i], Mask(depth))
        /\ BitIsSet(flags[j], Mask(depth))

\* C10: on valid input no index leaves its vector: a level never holds more
\* than 2n-1 entries, the final level holds at least 2n-2 (the debug_assert),
\* the relevant count of each backward step is at most the length of that
\* depth's level, no step of the backward loop indexes outside flags or
\* sorted, and no run ends in a panic.
C10_InBounds ==
  ValidInput =>
     /\ result.kind # "Panic"
     /\ Len(merged) <= Capa(NSym) /\ Len(list) <= Capa(NSym)
     /\ \A d \in 1..Len(level_lens) : level_lens[d] <= Capa(NSym)
     /\ (pc = "loop" /\ depth = max_len) => Len(list) >= Relevant(NSym)
     /\ (pc = "decode" /\ depth > 0 /\ n > 0) =>
          /\ n <= level_lens[depth]
          /\ n <= Len(flags)
          /\ ~DecodeLoop(0, n, Mask(depth - 1), flags, sorted, 0,
                         code_lens).oob

\* a backward step below the top level with entries still relevant
C10_Witness ==
  /\ ValidInput /\ NSym >= 3
  /\ pc = "decode" /\ depth > 0 /\ depth < max_len /\ n > 0
  /\ n < Relevant(NSym)

\* ------------------------------------------------------------------------
\* MergeIter (mergeiter.rs)
\* ------------------------------------------------------------------------

\* the ascending sequences over 0..MaxVal of length at most MaxSeq
Ascending ==
  {q \in UNION {[1..k -> 0..MaxVal] : k \in 0..MaxSeq} :
     \A i \in 1..(Len(q) - 1) : q[i] <= q[i + 1]}

\* the pick functions handed to merge: "lt" is the tests' pick_f64 (Left iff
\* a < b), "le" picks Left on equal heads too, "left" always picks Left
Picks == {"lt", "le", "left"}

Pick(p, a, b) ==
  IF p = "lt" THEN (IF a < b THEN "Left" ELSE "Right")
  ELSE IF p = "le" THEN (IF a <= b THEN "Left" ELSE "Right")
  ELSE "Left"

\* Iterator::next of a source over the sequence `it`
Poll(it) ==
  IF it = <<>> THEN [el |-> None, it |-> <<>>]
  ELSE [el |-> Some(Head(it)), it |-> Tail(it)]

\* no package_merge call is in progress while a MergeIter is driven
IdlePM ==
  /\ pc = "idle" /\ build = "release" /\ frequencies = <<>> /\ max_len = 0
  /\ sorted = <<>> /\ list = <<>> /\ merged = <<>> /\ flags = <<>>
  /\ depth = 0 /\ pairs_pos = 0 /\ srted_pos = 0 /\ n = 0
  /\ code_lens = <<>> /\ result = NoResult /\ level_lens = <<>>

\* merge(a, b, pick) = MergeIter::new: one element is pulled from each source
InitMerge ==
  /\ IdlePM
  /\ src_a \in Ascending /\ src_b \in Ascending
  /\ pck \in Picks
  /\ ela = Poll(src_a).el /\ ita = Poll(src_a).it
  /\ elb = Poll(src_b).el /\ itb = Poll(src_b).it
  /\ polls_a = 1 /\ polls_b = 1
  /\ picks = 0 /\ out = <<>> /\ ret = <<"NotCalled">>

\* let tmp = self.ita.next(); Some(Either::Left(mem::replace(a, tmp).unwrap()))
TakeLeft ==
  /\ ita' = Poll(ita).it
  /\ polls_a' = polls_a + 1
  /\ ela' = Poll(ita).el
  /\ ret' = <<"Left", ela[1]>>
  /\ out' = Append(out, <<"Left", ela[1]>>)
  /\ UNCHANGED <<itb, elb, polls_b>>

\* let tmp = self.itb.next(); Some(Either::Right(mem::replace(b, tmp).unwrap()))
TakeRight ==
  /\ itb' = Poll(itb).it
  /\ polls_b' = polls_b + 1
  /\ elb' = Poll(itb).el
  /\ ret' = <<"Right", elb[1]>>
  /\ out' = Append(out, <<"Right", elb[1]>>)
  /\ UNCHANGED <<ita, ela, polls_a>>

\* next(), arm (None, None)
NextNone ==
  /\ pc = "idle" /\ pck # "none"
  /\ ela = None /\ elb = None
  /\ ret' = <<"None">>
  /\ UNCHANGED <<ita, itb, ela, elb, pck, out, picks, polls_a, polls_b,
                 src_a, src_b>>
  /\ UNCHANGED varsPM

\* mutant of NextLeftOnly: the arm asks pck although the right side is
\* exhausted, and polls the right source once more
NextLeftOnlyRepoll ==
  /\ pc = "idle" /\ pck # "none"
  /\ ela # None /\ elb = None
  /\ ita' = Poll(ita).it
  /\ polls_a' = polls_a + 1
  /\ ela' = Poll(ita).el
  /\ ret' = <<"Left", ela[1]>>
  /\ out' = Append(out, <<"Left", ela[1]>>)
  /\ itb' = Poll(itb).it
  /\ elb' = Poll(itb).el
  /\ polls_b' = polls_b + 1
  /\ picks' = picks + 1
  /\ UNCHANGED <<pck, src_a, src_b>>
  /\ UNCHANGED varsPM

\* next(), arm (Some, None)
NextLeftOnly ==
  /\ pc = "idle" /\ pck # "none"
  /\ ela # None /\ elb = None
  /\ TakeLeft
  /\ UNCHANGED <<pck, picks, src_a, src_b>>
  /\ UNCHANGED varsPM

\* next(), arm (None, Some)
NextRightOnly ==
  /\ pc = "idle" /\ pck # "none"
  /\ ela = None /\ elb # None
  /\ TakeRight
  /\ UNCHANGED <<pck, picks, src_a, src_b>>
  /\ UNCHANGED varsPM

\* mutant of NextBoth: the arms of `match p` are exchanged
NextBothSwapped ==
  /\ pc = "idle" /\ pck # "none"
  /\ ela # None /\ elb # None
  /\ picks' = picks + 1
  /\ IF Pick(pck, ela[1], elb[1]) = "Left" THEN TakeRight ELSE TakeLeft
  /\ UNCHANGED <<pck, src_a, src_b>>
  /\ UNCHANGED varsPM

\* next(), arm (Some, Some): pck is called on the two pending heads
NextBoth ==
  /\ pc = "idle" /\ pck # "none"
  /\ ela # None /\ elb # None
  /\ picks' = picks + 1
  /\ IF Pick(pck, ela[1], elb[1]) = "Left" THEN TakeLeft ELSE TakeRight
  /\ UNCHANGED <<pck, src_a, src_b>>
  /\ UNCHANGED varsPM

NextMerge ==
  \/ NextNone
  \/ NextLeftOnly
  \/ NextRightOnly
  \/ NextBoth

SpecMerge == InitMerge /\ [][NextMerge]_vars

\* ------------------------------------------------------------------------
\* Properties of MergeIter (checked under SpecMerge)
\* ------------------------------------------------------------------------

\* the values of the elements of `o` tagged `side`, in order
Side(o, side) ==
  LET sel == SelectSeq(o, LAMBDA e : e[1] = side)
  IN [k \in 1..Len(sel) |-> sel[k][2]]

Drained == ela = None /\ elb = None

\* C7: with a pick that chooses the smaller head (either rule on equal
\* heads), the drained output is ascending, has |A| + |B| elements, and its
\* Left elements are exactly A and its Right elements exactly B, each in
\* the original order.
C7_Merge ==
  (pc = "idle" /\ Drained /\ pck \in {"lt", "le"}) =>
     /\ \A i \in 1..(Len(out) - 1) : out[i][2] <= out[i + 1][2]
     /\ Len(out) = Len(src_a) + Len(src_b)
     /\ Side(out, "Left") = src_a
     /\ Side(out, "Right") = src_b

\* a drained merge that interleaved the two sides and met equal heads
C7_Witness ==
  /\ pc = "idle" /\ Drained /\ pck = "lt"
  /\ Len(src_a) >= 2 /\ Len(src_b) >= 2
  /\ \E i \in 1..Len(src_a) : \E j \in 1..Len(src_b) : src_a[i] = src_b[j]
  /\ \E i, j, k \in 1..Len(out) :
        /\ i < j /\ j < k
        /\ out[i][1] = "Left" /\ out[j][1] = "Right" /\ out[k][1] = "Left"

\* C8: pck is called only in a step where both heads are pending, at most
\* once per emitted element; an exhausted side stays exhausted, pck is not
\* called and the exhausted source is not polled from then on, the other
\* side's pending head and rest are emitted in order, and next() returns
\* None whenever both sides are exhausted.
C8_NoPickAfterExhaustion ==
  /\ [][picks' # picks =>
          /\ ela # None /\ elb # None
          /\ picks' = picks + 1
          /\ Len(out') = Len(out) + 1]_vars
  /\ [][(ela = None \/ elb = None) => picks' = picks]_vars
  /\ [][/\ ela = None => (ela' = None /\ polls_a' = polls_a /\ ita' = ita)
        /\ elb = None => (elb' = None /\ polls_b' = polls_b /\ itb' = itb)
       ]_vars
  /\ [][(pc = "idle" /\ elb = None /\ ela # None) =>
          /\ out' = Append(out, <<"Left", ela[1]>>)
          /\ ela' \o ita' = ita]_vars
  /\ [][(pc = "idle" /\ ela = None /\ elb # None) =>
          /\ out' = Append(out, <<"Right", elb[1]>>)
          /\ elb' \o itb' = itb]_vars
  /\ [][(pc = "idle" /\ Drained) => (ret' = <<"None">> /\ out' = out)]_vars

\* next() has returned None after a run in which pck was called at least
\* twice and the left side outlived the right
C8_Witness ==
  /\ pc = "idle" /\ Drained /\ ret = <<"None">>
  /\ picks >= 2 /\ Len(out) >= picks + 2
  /\ out[Len(out)][1] = "Left" /\ out[Len(out) - 1][1] = "Left"

=============================================================================
